---- MODULE Spec2Model ----
(***************************************************************************)
(* QuickBooks OAuth2 credential lifecycle: server/routes/oauth.js (the     *)
(* /authorize, /callback, /status, /refresh, /token and /revoke handlers,  *)
(* and the app-level /callback) and server/services/oauthTokenManager.js   *)
(* (getAccessToken).                                                       *)
(*                                                                         *)
(* Node runs each handler to its next await without interruption, so one   *)
(* action is the code between two awaits.  tokenStore and oauthStateStore  *)
(* are Maps; tokenStore holds object references, so a handler's local      *)
(* tokenData may alias the stored object: records live in heap and the     *)
(* store maps a realmId to a heap address.                                 *)
(***************************************************************************)
EXTENDS Integers, FiniteSets, TLC

\* ---------------------------------------------------------------- bounds
MaxCalls == 3            \* requests that wait for the provider in one behaviour
MaxStates == 1           \* state values /authorize issues in one behaviour
MaxTicks == 3            \* clock steps in one behaviour

\* ------------------------------------------------------------- constants
FiveMinutes == 5 * 60 * 1000      \* refresh margin, ms
TenMinutes == 10 * 60 * 1000      \* state TTL, ms
ClockStep == 5 * 60 * 1000        \* the clock advances in steps of this many ms
HalfSecond == 500                 \* a step that leaves the clock between two seconds
ExpiresInChoices == {10 * 60}     \* expires_in of a provider response, s
RefreshExpiresInChoices == {15 * 60}  \* x_refresh_token_expires_in, s

Calls == 1 .. MaxCalls
Tenants == {"co-1", "co-2"}
NoRealm == "undefined"            \* a request without realmId
Realms == Tenants \cup {NoRealm}
NoState == 0                      \* a callback without state
StateValues == 0 .. (MaxStates + 1)   \* MaxStates + 1 is never issued
RedirectUris == {"uri-env"}
NoToken == 0
NoObject == 0                     \* a tokenData that holds no record
NoCall == NoObject                \* the request of a response is in no slot

VARIABLES
  now,              \* Date.now(), ms
  configured,       \* QUICKBOOKS_CLIENT_ID and QUICKBOOKS_CLIENT_SECRET are set
  oauthStateStore,  \* state -> [createdAt, redirectUri]
  nextState,        \* number of state values issued so far
  tokenStore,       \* realmId -> address of the stored token record
  heap,             \* address -> token record
  calls,            \* the asynchronous requests: one record per request
  response,         \* what the last step answered to its caller, if it answered
  passed,           \* history: state -> number of callbacks that passed its verification
  revoked,          \* history: the realmIds whose record POST /revoke deleted, and that
                    \* no callback has connected since
  spent,            \* history: the refresh tokens that a successful refresh replaced
  QUICKBOOKS_ENVIRONMENT,  \* process.env.QUICKBOOKS_ENVIRONMENT, "" when unset
  localStorage      \* the browser's item quickbooks_credentials

\* What no request to the server changes: the process's environment and the
\* browser's storage.
outside == <<configured, QUICKBOOKS_ENVIRONMENT, localStorage>>

vars ==
  <<now, configured, oauthStateStore, nextState, tokenStore, heap, calls, response, passed,
    revoked, spent, QUICKBOOKS_ENVIRONMENT, localStorage>>

NoResponse == [op |-> "none"]

\* localStorage.getItem answers null: nothing is stored.
NoCredentials == [stored |-> FALSE]

\* process.env.QUICKBOOKS_ENVIRONMENT || 'sandbox'
environment == IF QUICKBOOKS_ENVIRONMENT = "" THEN "sandbox" ELSE QUICKBOOKS_ENVIRONMENT

\* A request slot: the handler's position and the locals it holds across an
\* await.  A finished request keeps nothing.
IdleCall ==
  [op |-> "none", realmId |-> NoRealm, pc |-> "idle", tokenData |-> NoObject,
   state |-> NoState, redirectUri |-> "none"]

DoneCall == [IdleCall EXCEPT !.pc = "done"]

\* What a request answers when it ends.  expiresAt is the expiry of the record
\* whose accessToken is handed out; provider is the provider's answer, if the
\* request waited for one.
Answer(op, c, realmId, outcome, accessToken, expiresAt, provider) ==
  [op |-> op, call |-> c, realmId |-> realmId, outcome |-> outcome,
   accessToken |-> accessToken, expiresAt |-> expiresAt, provider |-> provider,
   state |-> NoState]

\* What a callback answers: a redirect that names the realmId only on success;
\* state is the state the callback presented, kept where its verification
\* decided the outcome.
Redirect(op, c, realmId, outcome, provider, state) ==
  [Answer(op, c, realmId, outcome, NoToken, 0, provider) EXCEPT !.state = state]

\* What a request answers when the refresh it sent has succeeded; answer is
\* the body of the provider's response.
Issued(op, c, realmId, accessToken, expiresAt, answer) ==
  Answer(op, c, realmId, "ok", accessToken, expiresAt, "ok") @@ [answer |-> answer]

Init ==
  /\ now = 0
  /\ configured \in BOOLEAN
  /\ QUICKBOOKS_ENVIRONMENT = ""
  /\ localStorage = NoCredentials
  /\ spent = {}
  /\ oauthStateStore = << >>
  /\ nextState = 0
  /\ tokenStore = << >>
  /\ heap = << >>
  /\ calls = [c \in Calls |-> IdleCall]
  /\ response = NoResponse
  /\ passed = [s \in StateValues |-> 0]
  /\ revoked = {}

\* ------------------------------------------------------------ the stores
Has(store, key) == key \in DOMAIN store

\* Map.prototype.set
MapSet(store, key, value) ==
  [k \in DOMAIN store \cup {key} |-> IF k = key THEN value ELSE store[k]]

\* Map.prototype.delete
MapDelete(store, key) == [k \in DOMAIN store \ {key} |-> store[k]]

\* ------------------------------------------------------------- requests
\* Requests take the call slots in order.
NextCall == Cardinality({c \in Calls : calls[c].pc # "idle"}) + 1

\* The request waits for the provider's answer to the fetch it sent.
Await(op, realmId, tokenData) ==
  [IdleCall EXCEPT !.op = op, !.realmId = realmId, !.pc = "fetch", !.tokenData = tokenData]

\* The refreshes of realmId whose fetch has not been answered yet.
RefreshesInFlight(realmId) ==
  {c \in Calls : /\ calls[c].op \in {"getAccessToken", "token", "refresh"}
                 /\ calls[c].realmId = realmId
                 /\ calls[c].pc = "fetch"}

\* Variant: the margin is ten minutes.
NeedsRefreshEarly(tokenData) == now >= tokenData.expiresAt - TenMinutes

\* Variant: the margin is taken in seconds.
NeedsRefreshSecondsMargin(tokenData) == now >= tokenData.expiresAt - 5 * 60

\* Date.now() >= (tokenData.expiresAt - 5 * 60 * 1000)
NeedsRefresh(tokenData) == now >= tokenData.expiresAt - FiveMinutes

\* Variant: the token still counts as valid at its expiry instant.
IsExpiredLate(tokenData) == now > tokenData.expiresAt

\* Date.now() >= tokenData.expiresAt
IsExpired(tokenData) == now >= tokenData.expiresAt

\* The provider's answers to a token request.  A successful answer to a
\* refresh may or may not carry refresh_token and x_refresh_token_expires_in.
RefreshAnswers ==
  [kind : {"ok"}, expires_in : ExpiresInChoices, refresh_token : BOOLEAN,
   x_refresh_token_expires_in : RefreshExpiresInChoices \cup {0}]
  \cup {[kind |-> "notok"], [kind |-> "throw"]}

ExchangeAnswers ==
  [kind : {"ok"}, expires_in : ExpiresInChoices,
   x_refresh_token_expires_in : RefreshExpiresInChoices]
  \cup {[kind |-> "notok"], [kind |-> "throw"]}

\* Variant: the new record names the default deployment.
RefreshedInSandbox(c, old, answer) ==
  [accessToken |-> c,
   refreshToken |-> IF answer.refresh_token THEN c ELSE old.refreshToken,
   expiresAt |-> now + answer.expires_in * 1000,
   refreshTokenExpiresAt |->
     IF answer.x_refresh_token_expires_in # 0
       THEN now + answer.x_refresh_token_expires_in * 1000
       ELSE old.refreshTokenExpiresAt,
   updatedAt |-> now,
   environment |-> "sandbox",
   isRefreshing |-> FALSE]

\* The refresh tokens out of use once the refresh that sent the one of the
\* record at address a is answered: a success that carries a new refresh
\* token replaces the one that was sent.
Spent(a, answer) ==
  IF answer.kind = "ok" /\ answer.refresh_token
    THEN spent \cup {heap[a].refreshToken}
    ELSE spent

\* Variant: the new record is spread from the old one and keeps its mark.
RefreshedKeepingMark(c, old, answer) ==
  [accessToken |-> c,
   refreshToken |-> IF answer.refresh_token THEN c ELSE old.refreshToken,
   expiresAt |-> now + answer.expires_in * 1000,
   refreshTokenExpiresAt |->
     IF answer.x_refresh_token_expires_in # 0
       THEN now + answer.x_refresh_token_expires_in * 1000
       ELSE old.refreshTokenExpiresAt,
   updatedAt |-> now,
   environment |-> environment,
   isRefreshing |-> old.isRefreshing]

\* Variant: the refresh token of the answer is stored without falling back to
\* the old one.
RefreshedWithoutFallback(c, old, answer) ==
  [accessToken |-> c,
   refreshToken |-> IF answer.refresh_token THEN c ELSE NoToken,
   expiresAt |-> now + answer.expires_in * 1000,
   refreshTokenExpiresAt |->
     IF answer.x_refresh_token_expires_in # 0
       THEN now + answer.x_refresh_token_expires_in * 1000
       ELSE old.refreshTokenExpiresAt,
   updatedAt |-> now,
   environment |-> environment,
   isRefreshing |-> FALSE]

\* The record a successful refresh builds; address c names the tokens issued
\* to request c.
Refreshed(c, old, answer) ==
  [accessToken |-> c,
   refreshToken |-> IF answer.refresh_token THEN c ELSE old.refreshToken,
   expiresAt |-> now + answer.expires_in * 1000,
   refreshTokenExpiresAt |->
     IF answer.x_refresh_token_expires_in # 0
       THEN now + answer.x_refresh_token_expires_in * 1000
       ELSE old.refreshTokenExpiresAt,
   updatedAt |-> now,
   environment |-> environment,
   isRefreshing |-> FALSE]

\* What getAccessToken leaves in tokenStore when its refresh did not
\* succeed: catch (refreshError) sets the record it read, at address a, for a
\* rejected refresh and for a thrown fetch alike.
getAccessTokenFailedStore(realmId, a) == MapSet(tokenStore, realmId, a)

\* What GET /token leaves in tokenStore when its refresh did not succeed: the
\* else branch of tokenResponse.ok returns without touching the store, catch
\* (refreshError) sets the record it read.
tokenFailedStore(realmId, a, answer) ==
  IF answer.kind = "notok" THEN tokenStore ELSE MapSet(tokenStore, realmId, a)

\* The event loop is free to run the next handler step.
Ready == response = NoResponse

\* Variant: the request stays at its fetch, which is sent again.
EndResending(c) == calls

\* The request in slot c has ended.
End(c) == [calls EXCEPT ![c] = DoneCall]

\* --------------------------------------- getAccessToken (oauthTokenManager)
\* From the call to the await of fetch, or to the return when no refresh is
\* started.
getAccessTokenStart(realmId) ==
  LET c == NextCall
      op == "getAccessToken"
  IN
  /\ Ready
  /\ UNCHANGED <<now, outside, spent, oauthStateStore, nextState, tokenStore, passed, revoked>>
  /\ IF realmId = NoRealm
       THEN /\ response' = Answer(op, NoCall, realmId, "BadRequest", NoToken, 0, "none")
            /\ UNCHANGED calls
            /\ UNCHANGED heap
       ELSE IF ~Has(tokenStore, realmId)
         THEN /\ response' = Answer(op, NoCall, realmId, "NotConnected", NoToken, 0, "none")
              /\ UNCHANGED calls
              /\ UNCHANGED heap
         ELSE LET a == tokenStore[realmId]
                  tokenData == heap[a]
              IN IF NeedsRefresh(tokenData) /\ ~tokenData.isRefreshing
                   THEN /\ c \in Calls
                        /\ heap' = [heap EXCEPT ![a].isRefreshing = TRUE]
                        /\ calls' = [calls EXCEPT ![c] = Await(op, realmId, a)]
                        /\ response' = NoResponse
                   ELSE /\ response' = Answer(op, NoCall, realmId, "ok", tokenData.accessToken,
                                              tokenData.expiresAt, "none")
                        /\ UNCHANGED calls
                        /\ UNCHANGED heap

\* The provider answers the refresh that getAccessToken sent.
getAccessTokenAnswer(c, answer) ==
  LET call == calls[c]
      a == call.tokenData
      realmId == call.realmId
      op == "getAccessToken"
  IN
  /\ Ready
  /\ call.op = op
  /\ call.pc = "fetch"
  /\ UNCHANGED <<now, outside, oauthStateStore, nextState, passed, revoked>>
  /\ spent' = Spent(a, answer)
  /\ CASE answer.kind = "ok" ->
            /\ heap' = MapSet(heap, c, Refreshed(c, heap[a], answer))
            /\ tokenStore' = MapSet(tokenStore, realmId, c)
            /\ calls' = End(c)
            /\ response' = Issued(op, c, realmId, c,
                                  Refreshed(c, heap[a], answer).expiresAt, answer)
       [] answer.kind = "notok" ->
            \* tokenData.isRefreshing = false, then await tokenResponse.json()
            /\ heap' = [heap EXCEPT ![a].isRefreshing = FALSE]
            /\ UNCHANGED tokenStore
            /\ calls' = [calls EXCEPT ![c].pc = "json"]
            /\ response' = NoResponse
       [] answer.kind = "throw" ->
            \* catch (refreshError)
            /\ heap' = [heap EXCEPT ![a].isRefreshing = FALSE]
            /\ tokenStore' = getAccessTokenFailedStore(realmId, a)
            /\ calls' = End(c)
            /\ response' = Answer(op, c, realmId, "NetworkError", NoToken, 0, "throw")

\* Variant: the read of the rejected answer's body never settles.
getAccessTokenRejectedWaiting(c) ==
  /\ Ready
  /\ calls[c].op = "getAccessToken"
  /\ calls[c].pc = "json"
  /\ UNCHANGED vars

\* The body of the rejected answer has been read: the throw of line 53 is
\* caught by catch (refreshError).
getAccessTokenRejected(c) ==
  LET call == calls[c]
      a == call.tokenData
  IN
  /\ Ready
  /\ call.op = "getAccessToken"
  /\ call.pc = "json"
  /\ heap' = [heap EXCEPT ![a].isRefreshing = FALSE]
  /\ tokenStore' = getAccessTokenFailedStore(call.realmId, a)
  /\ calls' = End(c)
  /\ response' = Answer("getAccessToken", c, call.realmId, "RefreshRejected", NoToken, 0,
                        "notok")
  /\ UNCHANGED <<now, outside, spent, oauthStateStore, nextState, passed, revoked>>

\* ------------------------------------------------- GET /token (oauth.js)
tokenStart(realmId) ==
  LET c == NextCall
      op == "token"
  IN
  /\ Ready
  /\ UNCHANGED <<now, outside, spent, oauthStateStore, nextState, tokenStore, passed, revoked>>
  /\ IF realmId = NoRealm
       THEN /\ response' = Answer(op, NoCall, realmId, "BadRequest", NoToken, 0, "none")
            /\ UNCHANGED calls
            /\ UNCHANGED heap
       ELSE IF ~Has(tokenStore, realmId)
         THEN /\ response' = Answer(op, NoCall, realmId, "NotConnected", NoToken, 0, "none")
              /\ UNCHANGED calls
              /\ UNCHANGED heap
         ELSE LET a == tokenStore[realmId]
                  tokenData == heap[a]
              IN IF NeedsRefresh(tokenData) /\ ~tokenData.isRefreshing
                   THEN /\ c \in Calls
                        /\ heap' = [heap EXCEPT ![a].isRefreshing = TRUE]
                        /\ calls' = [calls EXCEPT ![c] = Await(op, realmId, a)]
                        /\ response' = NoResponse
                   ELSE /\ response' = Answer(op, NoCall, realmId, "ok", tokenData.accessToken,
                                              tokenData.expiresAt, "none")
                        /\ UNCHANGED calls
                        /\ UNCHANGED heap

tokenAnswer(c, answer) ==
  LET call == calls[c]
      a == call.tokenData
      realmId == call.realmId
      op == "token"
  IN
  /\ Ready
  /\ call.op = op
  /\ call.pc = "fetch"
  /\ UNCHANGED <<now, outside, oauthStateStore, nextState, passed, revoked>>
  /\ spent' = Spent(a, answer)
  /\ calls' = End(c)
  /\ CASE answer.kind = "ok" ->
            /\ heap' = MapSet(heap, c, Refreshed(c, heap[a], answer))
            /\ tokenStore' = MapSet(tokenStore, realmId, c)
            /\ response' = Issued(op, c, realmId, c,
                                  Refreshed(c, heap[a], answer).expiresAt, answer)
       [] answer.kind = "notok" ->
            \* tokenData.isRefreshing = false; return res.status(401)
            /\ heap' = [heap EXCEPT ![a].isRefreshing = FALSE]
            /\ tokenStore' = tokenFailedStore(realmId, a, answer)
            /\ response' = Answer(op, c, realmId, "RefreshRejected", NoToken, 0, "notok")
       [] answer.kind = "throw" ->
            \* catch (refreshError), then the outer catch answers 500
            /\ heap' = [heap EXCEPT ![a].isRefreshing = FALSE]
            /\ tokenStore' = tokenFailedStore(realmId, a, answer)
            /\ response' = Answer(op, c, realmId, "NetworkError", NoToken, 0, "throw")

\* ------------------------------------- injectOAuthToken (oauthTokenManager)
\* A token the client put into the request body itself.
ManualToken == MaxCalls + 3

InjectTokens == {NoToken, ManualToken}

\* next() without a token of the store: the request carries its own token,
\* or neither a token nor a realmId.
PassedOn(realmId, accessToken) ==
  Answer("injectOAuthToken", NoCall, realmId, "next", accessToken, 0, "none")
    @@ [next |-> 1, status |-> 0, requiresOAuth |-> FALSE]

\* .then: req.body.accessToken = oauthToken; next()
thenNext(result) == result @@ [next |-> 1, status |-> 0, requiresOAuth |-> FALSE]

\* Variant: the rejection is answered 401 and passed on as well.
catch401PassingOn(result) == result @@ [next |-> 1, status |-> 401, requiresOAuth |-> TRUE]

\* .catch: res.status(401).json({success: false, error, requiresOAuth: true})
catch401(result) == result @@ [next |-> 0, status |-> 401, requiresOAuth |-> TRUE]

\* From the call of the middleware to next(), to the 401, or to the await of
\* fetch inside getAccessToken.
injectOAuthTokenStart(realmId, accessToken) ==
  LET c == NextCall
      op == "injectOAuthToken"
  IN
  /\ Ready
  /\ UNCHANGED <<now, outside, spent, oauthStateStore, nextState, tokenStore, passed, revoked>>
  /\ IF accessToken # NoToken \/ realmId = NoRealm
       THEN /\ response' = PassedOn(realmId, accessToken)
            /\ UNCHANGED calls
            /\ UNCHANGED heap
       ELSE IF ~Has(tokenStore, realmId)
         THEN /\ response' = catch401(Answer(op, NoCall, realmId, "NotConnected", NoToken, 0,
                                             "none"))
              /\ UNCHANGED calls
              /\ UNCHANGED heap
         ELSE LET a == tokenStore[realmId]
                  tokenData == heap[a]
              IN IF NeedsRefresh(tokenData) /\ ~tokenData.isRefreshing
                   THEN /\ c \in Calls
                        /\ heap' = [heap EXCEPT ![a].isRefreshing = TRUE]
                        /\ calls' = [calls EXCEPT ![c] = Await(op, realmId, a)]
                        /\ response' = NoResponse
                   ELSE /\ response' = thenNext(Answer(op, NoCall, realmId, "ok",
                                                       tokenData.accessToken,
                                                       tokenData.expiresAt, "none"))
                        /\ UNCHANGED calls
                        /\ UNCHANGED heap

\* The provider answers the refresh that getAccessToken sent for the
\* middleware.
injectOAuthTokenAnswer(c, answer) ==
  LET call == calls[c]
      a == call.tokenData
      realmId == call.realmId
      op == "injectOAuthToken"
  IN
  /\ Ready
  /\ call.op = op
  /\ call.pc = "fetch"
  /\ UNCHANGED <<now, outside, oauthStateStore, nextState, passed, revoked>>
  /\ spent' = Spent(a, answer)
  /\ CASE answer.kind = "ok" ->
            /\ heap' = MapSet(heap, c, Refreshed(c, heap[a], answer))
            /\ tokenStore' = MapSet(tokenStore, realmId, c)
            /\ calls' = End(c)
            /\ response' = thenNext(Issued(op, c, realmId, c,
                                           Refreshed(c, heap[a], answer).expiresAt, answer))
       [] answer.kind = "notok" ->
            /\ heap' = [heap EXCEPT ![a].isRefreshing = FALSE]
            /\ UNCHANGED tokenStore
            /\ calls' = [calls EXCEPT ![c].pc = "json"]
            /\ response' = NoResponse
       [] answer.kind = "throw" ->
            /\ heap' = [heap EXCEPT ![a].isRefreshing = FALSE]
            /\ tokenStore' = getAccessTokenFailedStore(realmId, a)
            /\ calls' = End(c)
            /\ response' = catch401(Answer(op, c, realmId, "NetworkError", NoToken, 0, "throw"))

\* The body of the rejected answer has been read; getAccessToken's promise is
\* rejected.
injectOAuthTokenRejected(c) ==
  LET call == calls[c]
      a == call.tokenData
  IN
  /\ Ready
  /\ call.op = "injectOAuthToken"
  /\ call.pc = "json"
  /\ heap' = [heap EXCEPT ![a].isRefreshing = FALSE]
  /\ tokenStore' = getAccessTokenFailedStore(call.realmId, a)
  /\ calls' = End(c)
  /\ response' = catch401(Answer("injectOAuthToken", c, call.realmId, "RefreshRejected",
                                 NoToken, 0, "notok"))
  /\ UNCHANGED <<now, outside, spent, oauthStateStore, nextState, passed, revoked>>

\* ---------------------------------------------- POST /refresh (oauth.js)
\* Variant: the refresh token still counts as valid at its expiry instant.
RefreshTokenExpiredLate(tokenData) == now > tokenData.refreshTokenExpiresAt

\* Date.now() >= tokenData.refreshTokenExpiresAt
RefreshTokenExpired(tokenData) == now >= tokenData.refreshTokenExpiresAt

refreshStart(realmId) ==
  LET c == NextCall
      op == "refresh"
  IN
  /\ Ready
  /\ UNCHANGED <<now, outside, spent, oauthStateStore, nextState, heap, passed, revoked>>
  /\ IF realmId = NoRealm
       THEN /\ response' = Answer(op, NoCall, realmId, "BadRequest", NoToken, 0, "none")
            /\ UNCHANGED calls
            /\ UNCHANGED tokenStore
       ELSE IF ~Has(tokenStore, realmId) \/ heap[tokenStore[realmId]].refreshToken = NoToken
         THEN /\ response' = Answer(op, NoCall, realmId, "NotConnected", NoToken, 0, "none")
              /\ UNCHANGED calls
              /\ UNCHANGED tokenStore
         ELSE LET a == tokenStore[realmId]
              IN IF RefreshTokenExpired(heap[a])
                   THEN /\ tokenStore' = MapDelete(tokenStore, realmId)
                        /\ response' = Answer(op, NoCall, realmId, "RefreshTokenExpired", NoToken,
                                              0, "none")
                        /\ UNCHANGED calls
                   ELSE /\ c \in Calls
                        /\ calls' = [calls EXCEPT ![c] = Await(op, realmId, a)]
                        /\ response' = NoResponse
                        /\ UNCHANGED tokenStore

\* Variant: the record is deleted whenever the refresh did not succeed.
RefreshFailedStoreDeleting(realmId, answer) == MapDelete(tokenStore, realmId)

\* What POST /refresh leaves in tokenStore when the refresh did not succeed:
\* a rejected refresh deletes the record, the outer catch touches nothing.
RefreshFailedStore(realmId, answer) ==
  IF answer.kind = "notok" THEN MapDelete(tokenStore, realmId) ELSE tokenStore

refreshAnswer(c, answer) ==
  LET call == calls[c]
      a == call.tokenData
      realmId == call.realmId
      op == "refresh"
  IN
  /\ Ready
  /\ call.op = op
  /\ call.pc = "fetch"
  /\ UNCHANGED <<now, outside, oauthStateStore, nextState, passed, revoked>>
  /\ spent' = Spent(a, answer)
  /\ calls' = End(c)
  /\ CASE answer.kind = "ok" ->
            /\ heap' = MapSet(heap, c, Refreshed(c, heap[a], answer))
            /\ tokenStore' = MapSet(tokenStore, realmId, c)
            /\ response' = Issued(op, c, realmId, NoToken, 0, answer)
       [] answer.kind = "notok" ->
            /\ tokenStore' = RefreshFailedStore(realmId, answer)
            /\ UNCHANGED heap
            /\ response' = Answer(op, c, realmId, "RefreshRejected", NoToken, 0, "notok")
       [] answer.kind = "throw" ->
            /\ tokenStore' = RefreshFailedStore(realmId, answer)
            /\ UNCHANGED heap
            /\ response' = Answer(op, c, realmId, "NetworkError", NoToken, 0, "throw")

\* ----------------------------------------------- POST /revoke (oauth.js)
\* Variant: revoking a tenant that has no record is an error.
revokeStartStrict(realmId) ==
  LET c == NextCall
      op == "revoke"
  IN
  /\ Ready
  /\ UNCHANGED <<now, outside, spent, oauthStateStore, nextState, tokenStore, heap, passed>>
  /\ IF realmId = NoRealm
       THEN /\ response' = Answer(op, NoCall, realmId, "BadRequest", NoToken, 0, "none")
            /\ UNCHANGED <<calls, revoked>>
       ELSE IF ~Has(tokenStore, realmId)
         THEN /\ response' = Answer(op, NoCall, realmId, "NotConnected", NoToken, 0, "none")
              /\ UNCHANGED <<calls, revoked>>
         ELSE /\ c \in Calls
              /\ calls' = [calls EXCEPT ![c] = Await(op, realmId, tokenStore[realmId])]
              /\ response' = NoResponse
              /\ UNCHANGED revoked

revokeStart(realmId) ==
  LET c == NextCall
      op == "revoke"
  IN
  /\ Ready
  /\ UNCHANGED <<now, outside, spent, oauthStateStore, nextState, tokenStore, heap, passed>>
  /\ IF realmId = NoRealm
       THEN /\ response' = Answer(op, NoCall, realmId, "BadRequest", NoToken, 0, "none")
            /\ UNCHANGED <<calls, revoked>>
       ELSE IF ~Has(tokenStore, realmId)
         THEN /\ response' = Answer(op, NoCall, realmId, "ok", NoToken, 0, "none")
              /\ UNCHANGED <<calls, revoked>>
         ELSE /\ c \in Calls
              /\ calls' = [calls EXCEPT ![c] = Await(op, realmId, tokenStore[realmId])]
              /\ response' = NoResponse
              /\ UNCHANGED revoked

\* Variant: the record is deleted only when the provider accepted the revoke.
RevokeStoreOnSuccess(realmId, answer) ==
  IF answer = "ok" THEN MapDelete(tokenStore, realmId) ELSE tokenStore

\* Variant: the store is cleared.
RevokeStoreCleared(realmId, answer) == << >>

\* What the answer of the provider's revoke endpoint leaves in tokenStore:
\* the fetch is awaited inside its own try, and the delete follows it.
RevokeStore(realmId, answer) == MapDelete(tokenStore, realmId)

RevokeAnswers == {"ok", "notok", "throw"}

revokeAnswer(c, answer) ==
  LET call == calls[c]
  IN
  /\ Ready
  /\ call.op = "revoke"
  /\ call.pc = "fetch"
  /\ tokenStore' = RevokeStore(call.realmId, answer)
  /\ calls' = End(c)
  /\ response' = Answer("revoke", c, call.realmId, "ok", NoToken, 0, answer)
  /\ revoked' = revoked \cup {call.realmId}
  /\ UNCHANGED <<now, outside, spent, oauthStateStore, nextState, heap, passed>>

\* -------------------------------------------- GET /authorize (oauth.js)
\* The sweep after the new state is stored: entries created more than ten
\* minutes ago are deleted.
\* Variant: the cutoff lies ten minutes ahead of the clock.
SweepAhead(store) ==
  [k \in {s \in DOMAIN store : ~(store[s].createdAt < now + TenMinutes)} |-> store[k]]

\* Variant: entries created exactly ten minutes ago are deleted too.
SweepInclusive(store) ==
  [k \in {s \in DOMAIN store : ~(store[s].createdAt <= now - TenMinutes)} |-> store[k]]

Sweep(store) ==
  [k \in {s \in DOMAIN store : ~(store[s].createdAt < now - TenMinutes)} |-> store[k]]

authorize(redirectUri) ==
  /\ Ready
  /\ UNCHANGED <<now, outside, spent, tokenStore, heap, calls, passed, revoked>>
  /\ IF ~configured
       THEN /\ response' = [op |-> "authorize", success |-> FALSE, state |-> NoState]
            /\ UNCHANGED <<oauthStateStore, nextState>>
       ELSE LET state == nextState + 1
            IN /\ nextState < MaxStates
               /\ nextState' = state
               /\ oauthStateStore' =
                    Sweep(MapSet(oauthStateStore, state,
                                 [createdAt |-> now, redirectUri |-> redirectUri]))
               /\ response' = [op |-> "authorize", success |-> TRUE, state |-> state]

\* ------------------------------------------------------- GET /callback
\* oauthStateStore.get(state): the record, or undefined.
UndefinedState == [createdAt |-> 0, redirectUri |-> "undefined"]

\* Variant: the redirect URI is read from the configuration at callback time.
StateDataConfiguredUri(state) ==
  IF Has(oauthStateStore, state)
    THEN [oauthStateStore[state] EXCEPT !.redirectUri = "uri-env"]
    ELSE UndefinedState

StateData(state) ==
  IF Has(oauthStateStore, state) THEN oauthStateStore[state] ELSE UndefinedState

\* Variant: any state that was ever issued is accepted.
StateKnownIfIssued(state) == state \in 1 .. nextState

\* if (!stateData) does not reject the callback.
StateKnown(state) == StateData(state) # UndefinedState

\* Variant: the verified state is left in the store.
ConsumeStateKept(state) == oauthStateStore

\* oauthStateStore.delete(state) once the state is verified.
ConsumeState(state) == MapDelete(oauthStateStore, state)

\* Variant: the test for a missing code or state comes before the test for the
\* provider's error.
CallbackBeginCodeFirst(op, error, code, state, realmId) ==
  LET c == NextCall
  IN
  /\ Ready
  /\ UNCHANGED <<now, outside, spent, nextState, tokenStore, heap, revoked>>
  /\ IF ~code \/ state = NoState
       THEN /\ response' = Redirect(op, NoCall, NoRealm, "MalformedCallback", "none", NoState)
            /\ UNCHANGED <<calls, oauthStateStore, passed>>
       ELSE IF error
         THEN /\ response' = Redirect(op, NoCall, NoRealm, "AuthDenied", "none", NoState)
              /\ UNCHANGED <<calls, oauthStateStore, passed>>
         ELSE IF ~StateKnown(state)
           THEN /\ response' = Redirect(op, NoCall, NoRealm, "InvalidOrExpiredState",
                                        "none", state)
                /\ UNCHANGED <<calls, oauthStateStore, passed>>
           ELSE /\ c \in Calls
                /\ oauthStateStore' = ConsumeState(state)
                /\ passed' = [passed EXCEPT ![state] = @ + 1]
                /\ calls' = [calls EXCEPT ![c] =
                               [IdleCall EXCEPT !.op = op, !.realmId = realmId,
                                                !.pc = "fetch", !.state = state,
                                                !.redirectUri =
                                                  StateData(state).redirectUri]]
                /\ response' = NoResponse

\* A callback from its query to the await of the code exchange.
CallbackBegin(op, error, code, state, realmId) ==
  LET c == NextCall
  IN
  /\ Ready
  /\ UNCHANGED <<now, outside, spent, nextState, tokenStore, heap, revoked>>
  /\ IF error
       THEN /\ response' = Redirect(op, NoCall, NoRealm, "AuthDenied", "none", NoState)
            /\ UNCHANGED calls
            /\ UNCHANGED <<oauthStateStore, passed, revoked>>
       ELSE IF ~code \/ state = NoState
         THEN /\ response' = Redirect(op, NoCall, NoRealm, "MalformedCallback", "none",
                                        NoState)
              /\ UNCHANGED calls
              /\ UNCHANGED <<oauthStateStore, passed, revoked>>
         ELSE IF ~StateKnown(state)
           THEN /\ response' = Redirect(op, NoCall, NoRealm, "InvalidOrExpiredState",
                                        "none", state)
                /\ UNCHANGED calls
                /\ UNCHANGED <<oauthStateStore, passed, revoked>>
           ELSE /\ c \in Calls
                /\ oauthStateStore' = ConsumeState(state)
                /\ passed' = [passed EXCEPT ![state] = @ + 1]
                /\ calls' = [calls EXCEPT ![c] =
                               [IdleCall EXCEPT !.op = op, !.realmId = realmId,
                                                !.pc = "fetch", !.state = state,
                                                !.redirectUri =
                                                  StateData(state).redirectUri]]
                /\ response' = NoResponse

\* router.get('/callback') of routes/oauth.js
callbackStart(error, code, state, realmId) ==
  CallbackBegin("callback", error, code, state, realmId)

\* app.get('/callback') of the server
appCallbackStart(error, code, state, realmId) ==
  CallbackBegin("appCallback", error, code, state, realmId)

\* Variant: the lifetimes are added to the clock without the conversion to ms.
ExchangedInSeconds(c, answer) ==
  [accessToken |-> c,
   refreshToken |-> c,
   expiresAt |-> now + answer.expires_in,
   refreshTokenExpiresAt |-> now + answer.x_refresh_token_expires_in,
   updatedAt |-> now,
   environment |-> environment,
   isRefreshing |-> FALSE]

\* The record a successful code exchange stores.
Exchanged(c, answer) ==
  [accessToken |-> c,
   refreshToken |-> c,
   expiresAt |-> now + answer.expires_in * 1000,
   refreshTokenExpiresAt |-> now + answer.x_refresh_token_expires_in * 1000,
   updatedAt |-> now,
   environment |-> environment,
   isRefreshing |-> FALSE]

\* Variant: a rejected exchange drops the record the tenant had.
callbackAnswerClearing(c, answer) ==
  LET call == calls[c]
      realmId == call.realmId
  IN
  /\ Ready
  /\ call.op \in {"callback", "appCallback"}
  /\ call.pc = "fetch"
  /\ UNCHANGED <<now, outside, spent, oauthStateStore, nextState, passed>>
  /\ calls' = End(c)
  /\ CASE answer.kind = "ok" ->
            /\ IF realmId # NoRealm
                 THEN /\ heap' = MapSet(heap, c, Exchanged(c, answer))
                      /\ tokenStore' = MapSet(tokenStore, realmId, c)
                      /\ revoked' = revoked \ {realmId}
                 ELSE UNCHANGED <<heap, tokenStore, revoked>>
            /\ response' = Redirect(call.op, c, realmId, "Connected", "ok", call.state)
       [] answer.kind = "notok" ->
            /\ tokenStore' = MapDelete(tokenStore, realmId)
            /\ UNCHANGED <<heap, revoked>>
            /\ response' = Redirect(call.op, c, NoRealm, "ExchangeFailed", "notok",
                                    call.state)
       [] answer.kind = "throw" ->
            /\ UNCHANGED <<heap, tokenStore, revoked>>
            /\ response' = Redirect(call.op, c, NoRealm, "CallbackFailed", "throw",
                                    call.state)

\* The provider answers the code exchange.
callbackAnswer(c, answer) ==
  LET call == calls[c]
      realmId == call.realmId
  IN
  /\ Ready
  /\ call.op \in {"callback", "appCallback"}
  /\ call.pc = "fetch"
  /\ UNCHANGED <<now, outside, spent, oauthStateStore, nextState, passed>>
  /\ calls' = End(c)
  /\ CASE answer.kind = "ok" ->
            /\ IF realmId # NoRealm
                 THEN /\ heap' = MapSet(heap, c, Exchanged(c, answer))
                      /\ tokenStore' = MapSet(tokenStore, realmId, c)
                      /\ revoked' = revoked \ {realmId}
                 ELSE UNCHANGED <<heap, tokenStore, revoked>>
            /\ response' = Redirect(call.op, c, realmId, "Connected", "ok", call.state)
       [] answer.kind = "notok" ->
            /\ UNCHANGED <<heap, tokenStore, revoked>>
            /\ response' = Redirect(call.op, c, NoRealm, "ExchangeFailed", "notok",
                                    call.state)
       [] answer.kind = "throw" ->
            /\ UNCHANGED <<heap, tokenStore, revoked>>
            /\ response' = Redirect(call.op, c, NoRealm, "CallbackFailed", "throw",
                                    call.state)

\* ---------------------------------------------------------- GET /status
Max(a, b) == IF a >= b THEN a ELSE b

\* Variant: the check for a missing record is left out.
StatusResponseUnchecked(realmId) ==
  [op |-> "status", realmId |-> realmId, connected |-> realmId # NoRealm]

StatusResponse(realmId) ==
  IF realmId = NoRealm \/ ~Has(tokenStore, realmId)
    THEN [op |-> "status", realmId |-> realmId, connected |-> FALSE]
    ELSE LET tokenData == heap[tokenStore[realmId]]
         IN [op |-> "status", realmId |-> realmId, connected |-> TRUE,
             expiresIn |-> Max(0, (tokenData.expiresAt - now) \div 1000),
             needsRefresh |-> NeedsRefresh(tokenData),
             isExpired |-> IsExpired(tokenData)]

\* Variant: status drops a record whose access token has expired.
statusPurging(realmId) ==
  /\ Ready
  /\ response' = StatusResponse(realmId)
  /\ tokenStore' = IF Has(tokenStore, realmId) /\ IsExpired(heap[tokenStore[realmId]])
                      THEN MapDelete(tokenStore, realmId)
                      ELSE tokenStore
  /\ UNCHANGED <<now, outside, spent, oauthStateStore, nextState, heap, calls, passed, revoked>>

status(realmId) ==
  /\ Ready
  /\ response' = StatusResponse(realmId)
  /\ UNCHANGED <<now, outside, spent, oauthStateStore, nextState, tokenStore, heap, calls, passed, revoked>>

\* ------------------------------------------------------------ the clock
Tick ==
  /\ Ready
  /\ now < MaxTicks * ClockStep
  /\ now' = now + ClockStep
  /\ response' = NoResponse
  /\ UNCHANGED <<outside, spent, oauthStateStore, nextState, tokenStore, heap, calls, passed, revoked>>

\* The clock leaves the whole second, once.
TickHalfSecond ==
  /\ Ready
  /\ now % 1000 = 0
  /\ now' = now + HalfSecond
  /\ response' = NoResponse
  /\ UNCHANGED <<outside, spent, oauthStateStore, nextState, tokenStore, heap, calls, passed, revoked>>

\* The response of the last step has been written out (res.json,
\* res.redirect, or the settled promise of getAccessToken); the event loop
\* turns to the next event.
Flush ==
  /\ response # NoResponse
  /\ response' = NoResponse
  /\ UNCHANGED <<now, outside, spent, oauthStateStore, nextState, tokenStore, heap, calls, passed, revoked>>

\* ------------------------------------------------------ specification
Next ==
  \/ \E redirectUri \in RedirectUris : authorize(redirectUri)
  \/ \E error \in BOOLEAN, code \in BOOLEAN, state \in StateValues, realmId \in Realms :
       callbackStart(error, code, state, realmId)
  \/ \E error \in BOOLEAN, code \in BOOLEAN, state \in StateValues, realmId \in Realms :
       appCallbackStart(error, code, state, realmId)
  \/ \E c \in Calls, answer \in ExchangeAnswers : callbackAnswer(c, answer)
  \/ \E realmId \in Realms : status(realmId)
  \/ \E realmId \in Realms : getAccessTokenStart(realmId)
  \/ \E c \in Calls, answer \in RefreshAnswers :
       getAccessTokenAnswer(c, answer)
  \/ \E c \in Calls : getAccessTokenRejected(c)
  \/ \E realmId \in Realms : tokenStart(realmId)
  \/ \E c \in Calls, answer \in RefreshAnswers : tokenAnswer(c, answer)
  \/ \E realmId \in Realms : refreshStart(realmId)
  \/ \E c \in Calls, answer \in RefreshAnswers : refreshAnswer(c, answer)
  \/ \E realmId \in Realms : revokeStart(realmId)
  \/ \E c \in Calls, answer \in RevokeAnswers : revokeAnswer(c, answer)
  \/ Tick
  \/ TickHalfSecond
  \/ Flush

Spec == Init /\ [][Next]_vars

\* ------------------------------------------- further specifications
\* The address of the record that an earlier callback stored for a tenant.
EarlierCall(realmId) == IF realmId = "co-1" THEN MaxCalls + 1 ELSE MaxCalls + 2

\* The state after callbacks at time 0 have connected the tenants of
\* connected, the provider having returned the lifetime expires_in.
InitConnectedIn(choices, connected, expires_in) ==
  /\ now = 0
  /\ configured \in BOOLEAN
  /\ QUICKBOOKS_ENVIRONMENT \in choices
  /\ localStorage = NoCredentials
  /\ spent = {}
  /\ oauthStateStore = << >>
  /\ nextState = 0
  /\ tokenStore = [T \in connected |-> EarlierCall(T)]
  /\ heap = [a \in {EarlierCall(T) : T \in connected} |->
               Exchanged(a, [kind |-> "ok", expires_in |-> expires_in,
                             x_refresh_token_expires_in |-> 15 * 60])]
  /\ calls = [c \in Calls |-> IdleCall]
  /\ response = NoResponse
  /\ passed = [s \in StateValues |-> 0]
  /\ revoked = {}

\* The same with QUICKBOOKS_ENVIRONMENT unset.
InitConnected(connected, expires_in) == InitConnectedIn({""}, connected, expires_in)

\* The redirect URI is QUICKBOOKS_REDIRECT_URI or is built from the host of
\* the request to /authorize.
BothRedirectUris == {"uri-env", "uri-host"}

\* Authorization, callbacks, status and revoke, with co-1 connected before.
InitReconnect == InitConnected({"co-1"}, 10 * 60)

NextReconnect ==
  \/ \E redirectUri \in BothRedirectUris : authorize(redirectUri)
  \/ \E error \in BOOLEAN, code \in BOOLEAN, state \in StateValues, realmId \in Realms :
       callbackStart(error, code, state, realmId)
  \/ \E error \in BOOLEAN, code \in BOOLEAN, state \in StateValues, realmId \in Realms :
       appCallbackStart(error, code, state, realmId)
  \/ \E c \in Calls, answer \in ExchangeAnswers : callbackAnswer(c, answer)
  \/ \E realmId \in Realms : status(realmId)
  \/ \E realmId \in Realms : revokeStart(realmId)
  \/ \E c \in Calls, answer \in RevokeAnswers : revokeAnswer(c, answer)
  \/ Tick
  \/ Flush

SpecReconnect == InitReconnect /\ [][NextReconnect]_vars

\* One tenant's life: authorization, callback, status and getAccessToken, with
\* a provider that answers every request with success and a lifetime of one
\* hour, and a clock that advances 200 s at a time.
LifecycleExpiresIn == 60 * 60
LifecycleStep == 200 * 1000
LifecycleEnd == 2 * LifecycleExpiresIn * 1000

LifecycleExchangeAnswers ==
  [kind : {"ok"}, expires_in : {LifecycleExpiresIn},
   x_refresh_token_expires_in : RefreshExpiresInChoices]

LifecycleRefreshAnswers ==
  [kind : {"ok"}, expires_in : {LifecycleExpiresIn}, refresh_token : BOOLEAN,
   x_refresh_token_expires_in : RefreshExpiresInChoices \cup {0}]

Advance ==
  /\ Ready
  /\ now + LifecycleStep <= LifecycleEnd
  /\ now' = now + LifecycleStep
  /\ response' = NoResponse
  /\ UNCHANGED <<outside, spent, oauthStateStore, nextState, tokenStore, heap, calls, passed, revoked>>

NextLifecycle ==
  \/ \E redirectUri \in RedirectUris : authorize(redirectUri)
  \/ \E state \in StateValues : callbackStart(FALSE, TRUE, state, "co-1")
  \/ \E c \in Calls, answer \in LifecycleExchangeAnswers : callbackAnswer(c, answer)
  \/ status("co-1")
  \/ getAccessTokenStart("co-1")
  \/ \E c \in Calls, answer \in LifecycleRefreshAnswers : getAccessTokenAnswer(c, answer)
  \/ Advance
  \/ Flush

SpecLifecycle == Init /\ [][NextLifecycle]_vars

\* Both tenants connected, with records that are stale from the start: the
\* operations on token records of the two tenants interleave.
InitTenants == InitConnected(Tenants, 5 * 60)

NextTenants ==
  \/ \E redirectUri \in RedirectUris : authorize(redirectUri)
  \/ \E state \in StateValues, realmId \in Realms : callbackStart(FALSE, TRUE, state, realmId)
  \/ \E c \in Calls, answer \in ExchangeAnswers : callbackAnswer(c, answer)
  \/ \E realmId \in Realms : status(realmId)
  \/ \E realmId \in Realms : getAccessTokenStart(realmId)
  \/ \E c \in Calls, answer \in RefreshAnswers :
       getAccessTokenAnswer(c, answer)
  \/ \E c \in Calls : getAccessTokenRejected(c)
  \/ \E realmId \in Realms : tokenStart(realmId)
  \/ \E c \in Calls, answer \in RefreshAnswers : tokenAnswer(c, answer)
  \/ \E realmId \in Realms : refreshStart(realmId)
  \/ \E c \in Calls, answer \in RefreshAnswers : refreshAnswer(c, answer)
  \/ \E realmId \in Realms : revokeStart(realmId)
  \/ \E c \in Calls, answer \in RevokeAnswers : revokeAnswer(c, answer)
  \/ Flush

SpecTenants == InitTenants /\ [][NextTenants]_vars

\* The provider answers every request and the event loop runs every
\* continuation that is ready: the request in slot c is resumed.
Resume(c) ==
  \/ \E answer \in ExchangeAnswers : callbackAnswer(c, answer)
  \/ \E answer \in RefreshAnswers : getAccessTokenAnswer(c, answer)
  \/ getAccessTokenRejected(c)
  \/ \E answer \in RefreshAnswers : tokenAnswer(c, answer)
  \/ \E answer \in RefreshAnswers : refreshAnswer(c, answer)
  \/ \E answer \in RevokeAnswers : revokeAnswer(c, answer)

\* One tenant is connected and its access token is inside the margin.
InitLive == InitConnected({"co-1"}, 5 * 60)

NextLive ==
  \/ \E redirectUri \in RedirectUris : authorize(redirectUri)
  \/ \E state \in StateValues : callbackStart(FALSE, TRUE, state, "co-1")
  \/ status("co-1")
  \/ getAccessTokenStart("co-1")
  \/ tokenStart("co-1")
  \/ refreshStart("co-1")
  \/ revokeStart("co-1")
  \/ \E c \in Calls : Resume(c)
  \/ Flush

SpecLive ==
  /\ InitLive
  /\ [][NextLive]_vars
  /\ WF_vars(Flush)
  /\ \A c \in Calls : SF_vars(Resume(c))

\* A provider that rotates refresh tokens: it accepts the refresh token a
\* request sent unless an earlier refresh has replaced it, and every refresh
\* it accepts carries a new refresh token.  The request may still fail on
\* the network.
Rotates(c, answer) ==
  LET sent == heap[calls[c].tokenData].refreshToken
  IN \/ answer.kind = "throw"
     \/ answer.kind = "notok" /\ sent \in spent
     \/ answer.kind = "ok" /\ answer.refresh_token /\ sent \notin spent

\* co-1 is connected, its access token is inside the margin and its refresh
\* token is valid; nobody revokes.
\* The tenants connected before the requests under study.
EarlierRecords == [T \in {"co-1"} |-> EarlierCall(T)]

InitRotating == InitConnected(DOMAIN EarlierRecords, 5 * 60)

NextRotating ==
  \/ \E realmId \in Tenants : getAccessTokenStart(realmId)
  \/ \E c \in Calls, answer \in RefreshAnswers :
       getAccessTokenAnswer(c, answer) /\ Rotates(c, answer)
  \/ \E c \in Calls : getAccessTokenRejected(c)
  \/ \E realmId \in Tenants : tokenStart(realmId)
  \/ \E c \in Calls, answer \in RefreshAnswers :
       tokenAnswer(c, answer) /\ Rotates(c, answer)
  \/ \E realmId \in Tenants : refreshStart(realmId)
  \/ \E c \in Calls, answer \in RefreshAnswers :
       refreshAnswer(c, answer) /\ Rotates(c, answer)
  \/ \E realmId \in Tenants : status(realmId)
  \/ Flush

SpecRotating == InitRotating /\ [][NextRotating]_vars

\* The state values issued before the requests under study.
EarlierStates == {MaxStates + 1}

\* One state was issued at time 0 and no callback has presented it.
InitPurge ==
  /\ now = 0
  /\ configured \in BOOLEAN
  /\ QUICKBOOKS_ENVIRONMENT = ""
  /\ localStorage = NoCredentials
  /\ spent = {}
  /\ oauthStateStore = [s \in EarlierStates |-> [createdAt |-> 0, redirectUri |-> "uri-env"]]
  /\ nextState = 0
  /\ tokenStore = << >>
  /\ heap = << >>
  /\ calls = [c \in Calls |-> IdleCall]
  /\ response = NoResponse
  /\ passed = [s \in StateValues |-> 0]
  /\ revoked = {}

NextPurge ==
  \/ \E redirectUri \in RedirectUris : authorize(redirectUri)
  \/ \E state \in StateValues, realmId \in Tenants : callbackStart(FALSE, TRUE, state, realmId)
  \/ \E c \in Calls, answer \in ExchangeAnswers : callbackAnswer(c, answer)
  \/ Tick
  \/ TickHalfSecond
  \/ Flush

SpecPurge == InitPurge /\ [][NextPurge]_vars

\* The values of QUICKBOOKS_ENVIRONMENT: unset, or one of the two
\* deployments of the provider.
EnvironmentChoices == {"", "sandbox", "production"}

\* co-1 is connected and its access token is inside the margin, under every
\* setting of QUICKBOOKS_ENVIRONMENT.
InitEnvironment == InitConnectedIn(EnvironmentChoices, {"co-1"}, 5 * 60)

NextEnvironment ==
  \/ \E redirectUri \in RedirectUris : authorize(redirectUri)
  \/ \E state \in StateValues : callbackStart(FALSE, TRUE, state, "co-1")
  \/ \E c \in Calls, answer \in ExchangeAnswers : callbackAnswer(c, answer)
  \/ getAccessTokenStart("co-1")
  \/ \E c \in Calls, answer \in RefreshAnswers : getAccessTokenAnswer(c, answer)
  \/ \E c \in Calls : getAccessTokenRejected(c)
  \/ tokenStart("co-1")
  \/ \E c \in Calls, answer \in RefreshAnswers : tokenAnswer(c, answer)
  \/ refreshStart("co-1")
  \/ \E c \in Calls, answer \in RefreshAnswers : refreshAnswer(c, answer)
  \/ Flush

SpecEnvironment == InitEnvironment /\ [][NextEnvironment]_vars

\* The middleware in front of the protected routes, next to direct calls of
\* getAccessToken and to /revoke; co-1 is connected with a stale token.
InitInject == InitConnected({"co-1"}, 5 * 60)

NextInject ==
  \/ \E realmId \in Realms, accessToken \in InjectTokens :
       injectOAuthTokenStart(realmId, accessToken)
  \/ \E c \in Calls, answer \in RefreshAnswers : injectOAuthTokenAnswer(c, answer)
  \/ \E c \in Calls : injectOAuthTokenRejected(c)
  \/ \E realmId \in Tenants : getAccessTokenStart(realmId)
  \/ \E c \in Calls, answer \in RefreshAnswers : getAccessTokenAnswer(c, answer)
  \/ \E c \in Calls : getAccessTokenRejected(c)
  \/ \E realmId \in Tenants : revokeStart(realmId)
  \/ \E c \in Calls, answer \in RevokeAnswers : revokeAnswer(c, answer)
  \/ Flush

SpecInject == InitInject /\ [][NextInject]_vars

\* ------------------------------- QuickBooksStorage (quickbooksStorage.ts)
\* The variables of the server, which the browser's storage class leaves
\* alone.
server ==
  <<now, configured, QUICKBOOKS_ENVIRONMENT, oauthStateStore, nextState, tokenStore, heap,
    calls, passed, revoked, spent>>

RealmIdStrings == {"", "co-1"}
TokenStrings == {"", "manual-token"}
EntityStrings == {"", "Expense", "Bill"}

\* A QuickBooksCredentials value; oauthConnected is optional.
Credentials ==
  [realmId : RealmIdStrings, accessToken : TokenStrings, entity : EntityStrings,
   oauthConnected : {"undefined", "false", "true"}]

\* JSON.stringify, as the item that setItem stores: a key whose value is
\* undefined is left out.
stringify(credentials) ==
  [stored |-> TRUE,
   text |-> [k \in {f \in DOMAIN credentials : credentials[f] # "undefined"} |->
               credentials[k]]]

\* JSON.parse of the stored text: a key that is missing reads as undefined.
parse(item) ==
  [f \in {"realmId", "accessToken", "entity", "oauthConnected"} |->
     IF f \in DOMAIN item.text THEN item.text[f] ELSE "undefined"]

\* loadCredentials answers null.
NoneLoaded == [found |-> FALSE]

\* The stored credentials if they name a realmId, with the default entity
\* filled in; null otherwise.
loadCredentials ==
  IF ~localStorage.stored
    THEN NoneLoaded
    ELSE LET credentials == parse(localStorage)
         IN IF credentials.realmId # ""
              THEN [found |-> TRUE,
                    credentials |->
                      [credentials EXCEPT !.entity = IF @ = "" THEN "Expense" ELSE @]]
              ELSE NoneLoaded

hasCredentials == loadCredentials # NoneLoaded

isOAuthConnected ==
  /\ loadCredentials.found
  /\ loadCredentials.credentials.oauthConnected = "true"
  /\ loadCredentials.credentials.realmId # ""

\* What a call of the storage class leaves behind for the claims to read.
Called(op, realmId) == [op |-> op, realmId |-> realmId]

saveCredentials(credentials) ==
  /\ Ready
  /\ localStorage' = stringify(credentials)
  /\ response' = Called("saveCredentials", credentials.realmId)
  /\ UNCHANGED server

\* The object updateCredential starts from when nothing can be loaded.
UpdateDefault ==
  [realmId |-> "", accessToken |-> "", entity |-> "Expense", oauthConnected |-> "undefined"]

updateCredential(field, value) ==
  LET current == IF loadCredentials.found THEN loadCredentials.credentials ELSE UpdateDefault
  IN
  /\ Ready
  /\ localStorage' = stringify([current EXCEPT ![field] = value])
  /\ response' = Called("updateCredential", [current EXCEPT ![field] = value].realmId)
  /\ UNCHANGED server

clearCredentials ==
  /\ Ready
  /\ localStorage' = NoCredentials
  /\ response' = Called("clearCredentials", "")
  /\ UNCHANGED server

\* The object saveOAuthConnection starts from when nothing can be loaded.
OAuthDefault ==
  [realmId |-> "", accessToken |-> "", entity |-> "Expense", oauthConnected |-> "false"]

saveOAuthConnection(realmId, entity) ==
  LET current == IF loadCredentials.found THEN loadCredentials.credentials ELSE OAuthDefault
  IN
  /\ Ready
  /\ localStorage' = stringify([current EXCEPT !.realmId = realmId, !.entity = entity,
                                               !.oauthConnected = "true"])
  /\ response' = Called("saveOAuthConnection", realmId)
  /\ UNCHANGED server

NextStorage ==
  \/ \E credentials \in Credentials : saveCredentials(credentials)
  \/ \E value \in RealmIdStrings : updateCredential("realmId", value)
  \/ \E value \in TokenStrings : updateCredential("accessToken", value)
  \/ \E value \in EntityStrings : updateCredential("entity", value)
  \/ clearCredentials
  \/ \E realmId \in RealmIdStrings, entity \in EntityStrings \ {""} :
       saveOAuthConnection(realmId, entity)
  \/ Flush

SpecStorage == Init /\ [][NextStorage]_vars

\* ================================================================ claims
GetOps == {"getAccessToken", "token"}
CallbackOps == {"callback", "appCallback"}

\* In this step the request in slot c sends its fetch to the provider.
Sends(c, ops) ==
  /\ calls[c].pc = "idle"
  /\ calls'[c].pc = "fetch"
  /\ calls'[c].op \in ops

\* C1: for every tenant, at most one refresh request (from getAccessToken,
\* GET /token or POST /refresh) is in flight at any time.
C1_OneRefreshInFlight ==
  \A T \in Tenants : Cardinality(RefreshesInFlight(T)) <= 1

\* C2: calls of get_valid_access_token that overlap on a stale record share
\* one refresh and all get its token: a call that finds the record stale
\* while such a refresh is pending does not answer with the stale record's
\* token.
C2_OverlappingCallsShareRefresh ==
  ~ /\ response.op \in GetOps
    /\ response.outcome = "ok"
    /\ response.call = NoCall
    /\ now >= response.expiresAt - FiveMinutes
    /\ \E c \in RefreshesInFlight(response.realmId) : calls[c].op \in GetOps

\* C3: get_valid_access_token never answers successfully with a token whose
\* record has expired at the moment of the answer.
C3_NeverReturnsExpiredToken ==
  (response.op \in GetOps /\ response.outcome = "ok") => now < response.expiresAt

\* C4: a state value is single-use: at most one callback presenting it
\* passes the verification of the state.
C4_StateSingleUse ==
  \A s \in StateValues : passed[s] <= 1

\* C4 happens: a state has passed once and a later callback presenting it
\* is answered InvalidOrExpiredState.
C4_Witness ==
  /\ response.op \in CallbackOps
  /\ response.outcome = "InvalidOrExpiredState"
  /\ passed[response.state] = 1

\* C5: a callback whose state was created more than ten minutes earlier is
\* rejected and sends no code exchange, whether or not /authorize has swept
\* the store since.
C5_ExpiredStateRejected ==
  [][\A c \in Calls :
       Sends(c, CallbackOps) =>
         now - oauthStateStore[calls'[c].state].createdAt <= TenMinutes]_vars

\* C6: a callback sends a code exchange only for a state that /authorize
\* issued and that no callback has consumed, and a callback writes a token
\* record only as the answer to such an exchange.
C6_ExchangeNeedsIssuedState ==
  [][/\ \A c \in Calls :
          Sends(c, CallbackOps) =>
            /\ calls'[c].state \in 1 .. nextState
            /\ passed[calls'[c].state] = 0
     /\ (response'.op \in CallbackOps /\ tokenStore' # tokenStore) =>
          /\ response'.call \in Calls
          /\ calls[response'.call].pc = "fetch"
          /\ calls[response'.call].state \in 1 .. nextState
          /\ passed[calls[response'.call].state] = 1]_vars

\* C6 happens: a callback has stored a token record.
C6_Witness ==
  /\ response.op \in CallbackOps
  /\ response.outcome = "Connected"
  /\ Has(tokenStore, response.realmId)

\* C7: for a tenant without a token record, get_valid_access_token answers
\* NotConnected and status answers connected = false, and neither sends a
\* request to the provider nor changes the stores.
C7_NotConnected ==
  [][\A T \in Tenants :
       ~Has(tokenStore, T) =>
         /\ (response'.op \in GetOps /\ response'.realmId = T /\ response'.call = NoCall) =>
              /\ response'.outcome = "NotConnected"
              /\ UNCHANGED <<tokenStore, heap, calls>>
         /\ (response'.op = "status" /\ response'.realmId = T) =>
              /\ ~response'.connected
              /\ UNCHANGED <<tokenStore, heap, calls>>
         /\ \A c \in Calls : Sends(c, GetOps) => calls'[c].realmId # T]_vars

\* C7 happens: get_valid_access_token has answered NotConnected for a
\* tenant that was connected before and has no record now.
C7_Witness ==
  /\ response.op \in GetOps
  /\ response.outcome = "NotConnected"
  /\ response.realmId \in revoked

\* C8: when revoke answers, it answers success and the tenant has no token
\* record, so status reports connected = false, whatever the provider's
\* revoke endpoint did.
C8_RevokeDisconnects ==
  (response.op = "revoke" /\ response.realmId \in Tenants) =>
    /\ response.outcome = "ok"
    /\ ~Has(tokenStore, response.realmId)
    /\ ~StatusResponse(response.realmId).connected

\* C8 happens: revoke has answered after the provider call threw.
C8_Witness ==
  /\ response.op = "revoke"
  /\ response.provider = "throw"

\* C9: once revoke has deleted a tenant's record, the tenant has no record
\* until a callback connects it again; a refresh that was in flight does
\* not store one.
C9_RevokedStaysDisconnected ==
  \A T \in revoked : ~Has(tokenStore, T)

\* C10: when the refresh token of a tenant's record has expired, refresh
\* answers RefreshTokenExpired, sends nothing to the provider and deletes
\* the record, so that status reports connected = false.
C10_RefreshTokenExpired ==
  [][\A T \in Tenants :
       (Has(tokenStore, T) /\ now >= heap[tokenStore[T]].refreshTokenExpiresAt) =>
         /\ (response'.op = "refresh" /\ response'.realmId = T /\ response'.call = NoCall) =>
              /\ response'.outcome = "RefreshTokenExpired"
              /\ ~Has(tokenStore', T)
              /\ ~StatusResponse(T)'.connected
              /\ UNCHANGED calls
         /\ \A c \in Calls : Sends(c, {"refresh"}) => calls'[c].realmId # T]_vars

\* C10 happens: refresh has answered RefreshTokenExpired.
C10_Witness ==
  /\ response.op = "refresh"
  /\ response.outcome = "RefreshTokenExpired"

\* C11: get_valid_access_token on a stale record whose refresh token has
\* expired sends no refresh request: it answers RefreshTokenExpired and
\* deletes the record, as POST /refresh does.
C11_GetChecksRefreshTokenExpiry ==
  [][\A T \in Tenants :
       (/\ Has(tokenStore, T)
        /\ now >= heap[tokenStore[T]].expiresAt - FiveMinutes
        /\ now >= heap[tokenStore[T]].refreshTokenExpiresAt) =>
         /\ \A c \in Calls : Sends(c, GetOps) => calls'[c].realmId # T
         /\ (response'.op \in GetOps /\ response'.realmId = T /\ response'.call = NoCall) =>
              /\ response'.outcome = "RefreshTokenExpired"
              /\ ~Has(tokenStore', T)]_vars

\* C12: when the provider rejects a refresh, whichever operation sent it,
\* the caller is answered RefreshRejected and the tenant's record is gone.
C12_RejectedRefreshDeletesRecord ==
  (response.op \in {"getAccessToken", "token", "refresh"} /\ response.provider = "notok") =>
    /\ response.outcome = "RefreshRejected"
    /\ ~Has(tokenStore, response.realmId)

\* C13: a tenant without a record gets one only from a code exchange or a
\* refresh that succeeded for that tenant; no failed operation stores one.
C13_RecordCreatedOnlyBySuccess ==
  [][\A T \in Tenants :
       (~Has(tokenStore, T) /\ Has(tokenStore', T)) =>
         /\ response'.realmId = T
         /\ response'.provider = "ok"
         /\ response'.outcome \in {"Connected", "ok"}]_vars

\* C14 as stated: a record leaves tokenStore only by a revoke or by a
\* refresh that finds the refresh token expired.
C14_RemovedOnlyByRevokeOrExpiry ==
  [][\A T \in Tenants :
       (Has(tokenStore, T) /\ ~Has(tokenStore', T)) =>
         /\ response'.realmId = T
         /\ \/ response'.op = "revoke"
            \/ response'.op = "refresh" /\ response'.outcome = "RefreshTokenExpired"]_vars

\* C14 amended: a record leaves tokenStore only by a revoke, by a POST
\* /refresh that finds the refresh token expired, or by a POST /refresh
\* that the provider rejects.
C14_RemovedOnlyByRevokeOrFailedRefresh ==
  [][\A T \in Tenants :
       (Has(tokenStore, T) /\ ~Has(tokenStore', T)) =>
         /\ response'.realmId = T
         /\ \/ response'.op = "revoke"
            \/ /\ response'.op = "refresh"
               /\ response'.outcome \in {"RefreshTokenExpired", "RefreshRejected"}]_vars

\* C14 happens: a rejected POST /refresh has removed the record.
C14_Witness ==
  /\ response.op = "refresh"
  /\ response.outcome = "RefreshRejected"
  /\ ~Has(tokenStore, response.realmId)

\* C15: when a callback answers Connected, tokenStore holds a record for
\* the callback's tenant whose two expiries are the clock plus the lifetimes
\* the provider returned.
C15_ConnectedStoresRecord ==
  (response.op \in CallbackOps /\ response.outcome = "Connected") =>
    /\ Has(tokenStore, response.realmId)
    /\ \E answer \in ExchangeAnswers :
         /\ answer.kind = "ok"
         /\ heap[tokenStore[response.realmId]].expiresAt = now + answer.expires_in * 1000
         /\ heap[tokenStore[response.realmId]].refreshTokenExpiresAt =
              now + answer.x_refresh_token_expires_in * 1000

\* C16: when a callback has connected tenant T, status(T) reports connected
\* = true, and needsRefresh = false when the lifetime the provider returned
\* exceeds five minutes.
C16_ConnectedStatus ==
  (response.op \in CallbackOps /\ response.outcome = "Connected"
     /\ response.realmId \in Tenants) =>
    /\ StatusResponse(response.realmId).connected
    /\ (\A lifetime \in ExpiresInChoices : lifetime * 1000 > FiveMinutes) =>
         ~StatusResponse(response.realmId).needsRefresh

\* C16 happens: a callback has connected a tenant with a lifetime of more
\* than five minutes.
C16_Witness ==
  /\ response.op \in CallbackOps
  /\ response.outcome = "Connected"
  /\ response.realmId \in Tenants
  /\ heap[tokenStore[response.realmId]].updatedAt = now
  /\ heap[tokenStore[response.realmId]].expiresAt - now > FiveMinutes

RefreshOps == {"getAccessToken", "token", "refresh"}

\* C17: a refresh that succeeds for T replaces T's record by one with the
\* newly issued access token and expiry = clock + returned lifetime; the
\* refresh token and its expiry are the returned ones where the provider
\* returned them, and those of the record the request read otherwise.
C17_RefreshReplacesRecord ==
  [][(response'.op \in RefreshOps /\ response'.outcome = "ok" /\ response'.call \in Calls) =>
       LET c == response'.call
           answer == response'.answer
           old == heap[calls[c].tokenData]
           new == heap'[tokenStore'[response'.realmId]]
       IN /\ Has(tokenStore', response'.realmId)
          /\ new.accessToken = c
          /\ new.accessToken # old.accessToken
          /\ new.expiresAt = now + answer.expires_in * 1000
          /\ new.refreshToken = IF answer.refresh_token THEN c ELSE old.refreshToken
          /\ new.refreshToken # NoToken
          /\ new.refreshTokenExpiresAt =
               IF answer.x_refresh_token_expires_in # 0
                 THEN now + answer.x_refresh_token_expires_in * 1000
                 ELSE old.refreshTokenExpiresAt]_vars

\* C17 happens: a refresh has succeeded without a new refresh token, and the
\* stored record holds a refresh token issued to an earlier request.
C17_Witness ==
  /\ response.op \in RefreshOps
  /\ response.outcome = "ok"
  /\ response.call \in Calls
  /\ ~response.answer.refresh_token
  /\ heap[tokenStore[response.realmId]].refreshToken < response.call

\* C18: when T's record is fresh, get_valid_access_token(T) answers with the
\* stored access token, sends nothing to the provider and leaves the stores
\* as they are.
C18_FreshTokenReturned ==
  [][\A T \in Tenants :
       (Has(tokenStore, T) /\ now < heap[tokenStore[T]].expiresAt - FiveMinutes) =>
         /\ \A c \in Calls : Sends(c, GetOps) => calls'[c].realmId # T
         /\ (response'.op \in GetOps /\ response'.realmId = T /\ response'.call = NoCall) =>
              /\ response'.outcome = "ok"
              /\ response'.accessToken = heap[tokenStore[T]].accessToken
              /\ UNCHANGED <<tokenStore, heap, calls, oauthStateStore>>]_vars

\* C18 happens: get_valid_access_token has answered from a fresh record.
C18_Witness ==
  /\ response.op \in GetOps
  /\ response.outcome = "ok"
  /\ response.call = NoCall
  /\ now < response.expiresAt - FiveMinutes

\* C19: status only reads: it answers in the step that handles it, from the
\* stores as they are, changes neither store nor any record's isRefreshing,
\* sends nothing and occupies no request slot, whether or not a refresh is
\* in flight.
C19_StatusPureRead ==
  [][response'.op = "status" =>
       /\ response' = StatusResponse(response'.realmId)
       /\ UNCHANGED <<tokenStore, heap, oauthStateStore, nextState, calls>>
       /\ \A c \in Calls : calls'[c].op # "status"]_vars

\* C19 happens: status has answered for a tenant while a refresh for that
\* tenant is in flight.
C19_Witness ==
  /\ response.op = "status"
  /\ response.connected
  /\ RefreshesInFlight(response.realmId) # {}
  /\ heap[tokenStore[response.realmId]].isRefreshing

\* C20: for a connected tenant, status reports isExpired exactly when the
\* clock has reached the access token's expiry, needsRefresh exactly when it
\* has reached the expiry minus five minutes, and expiresIn = the whole
\* seconds left, 0 when none are; so isExpired implies needsRefresh and
\* expiresIn = 0.
C20_StatusNumbers ==
  (response.op = "status" /\ response.connected) =>
    LET expiresAt == heap[tokenStore[response.realmId]].expiresAt
        left == expiresAt - now
    IN /\ response.isExpired <=> now >= expiresAt
       /\ response.needsRefresh <=> now >= expiresAt - 5 * 60 * 1000
       /\ response.expiresIn >= 0
       /\ response.expiresIn * 1000 <= (IF left > 0 THEN left ELSE 0)
       /\ left > 0 => left < (response.expiresIn + 1) * 1000
       /\ response.isExpired => response.needsRefresh
       /\ response.isExpired => response.expiresIn = 0

\* C20 happens: status has answered for a record that expired a fraction of
\* a second ago.
C20_Witness ==
  /\ response.op = "status"
  /\ response.connected
  /\ response.isExpired
  /\ (heap[tokenStore[response.realmId]].expiresAt - now) % 1000 # 0

\* C21: revoke for a tenant without a record answers success, sends nothing
\* to the provider and leaves the stores as they are; so a revoke that
\* follows a revoke answers as the first did and changes nothing.
C21_RevokeIdempotent ==
  [][\A T \in Tenants :
       ~Has(tokenStore, T) =>
         /\ \A c \in Calls : Sends(c, {"revoke"}) => calls'[c].realmId # T
         /\ (response'.op = "revoke" /\ response'.realmId = T /\ response'.call = NoCall) =>
              /\ response'.outcome = "ok"
              /\ UNCHANGED <<tokenStore, heap, calls, oauthStateStore>>]_vars

\* C21 happens: a tenant whose record a revoke has deleted is revoked again.
C21_Witness ==
  /\ response.op = "revoke"
  /\ response.call = NoCall
  /\ response.realmId \in revoked

\* C22: a callback with the provider's error answers AuthDenied whatever
\* code and state it carries; otherwise one without code or state answers
\* MalformedCallback; otherwise one with an unknown state answers
\* InvalidOrExpiredState.  None of the three sends a request or changes
\* either store.
C22_CallbackClassification ==
  [][(\/ response'.op \in CallbackOps /\ response'.call = NoCall
      \/ calls' # calls /\ \E c \in Calls : Sends(c, CallbackOps)) =>
       \A error \in BOOLEAN, code \in BOOLEAN, state \in StateValues, realmId \in Realms :
         (callbackStart(error, code, state, realmId)
            \/ appCallbackStart(error, code, state, realmId)) =>
           LET bad == error \/ ~code \/ state = NoState
                        \/ state \notin DOMAIN oauthStateStore
           IN /\ error => response'.outcome = "AuthDenied"
              /\ (~error /\ (~code \/ state = NoState)) =>
                   response'.outcome = "MalformedCallback"
              /\ (~error /\ code /\ state # NoState
                    /\ state \notin DOMAIN oauthStateStore) =>
                   response'.outcome = "InvalidOrExpiredState"
              /\ bad => UNCHANGED <<calls, oauthStateStore, tokenStore, heap>>
              /\ ~bad => \E c \in Calls : Sends(c, CallbackOps)]_vars

\* C22 happens: a callback has answered AuthDenied while the store holds a
\* state it could have presented.
C22_Witness ==
  /\ response.op \in CallbackOps
  /\ response.outcome = "AuthDenied"
  /\ DOMAIN oauthStateStore # {}

\* C23: when the provider rejects the code exchange, or the exchange
\* throws, the callback answers a failure and tokenStore and every record
\* are as before.
C23_FailedExchangeKeepsStore ==
  [][(response'.op \in CallbackOps /\ response'.provider \in {"notok", "throw"}) =>
       /\ response'.outcome \in {"ExchangeFailed", "CallbackFailed"}
       /\ UNCHANGED <<tokenStore, heap>>]_vars

\* C23 happens: an exchange has been rejected while one tenant has a record
\* and the other has none.
C23_Witness ==
  /\ response.op \in CallbackOps
  /\ response.outcome = "ExchangeFailed"
  /\ Has(tokenStore, "co-1")
  /\ ~Has(tokenStore, "co-2")

\* C24: the redirect URI a callback sends in its code exchange is the one
\* that /authorize stored with the presented state.
C24_RedirectUriFromState ==
  [][\A c \in Calls :
       Sends(c, CallbackOps) =>
         /\ Has(oauthStateStore, calls'[c].state)
         /\ calls'[c].redirectUri = oauthStateStore[calls'[c].state].redirectUri]_vars

\* C24 happens: an exchange is in flight with the URI that /authorize built
\* from the host of its request.
C24_Witness ==
  \E c \in Calls :
    /\ calls[c].pc = "fetch"
    /\ calls[c].op \in CallbackOps
    /\ calls[c].redirectUri = "uri-host"

\* C25: /authorize fails when client id or secret is missing and then
\* leaves the state store as it is; when it succeeds, the store holds the
\* returned state with the redirect URI of the returned URL.
C25_AuthorizeConfiguration ==
  [][response'.op = "authorize" =>
       \A redirectUri \in BothRedirectUris :
         authorize(redirectUri) =>
           IF ~configured
             THEN /\ ~response'.success
                  /\ UNCHANGED <<oauthStateStore, nextState>>
             ELSE /\ response'.success
                  /\ Has(oauthStateStore', response'.state)
                  /\ oauthStateStore'[response'.state].redirectUri = redirectUri
                  /\ oauthStateStore'[response'.state].createdAt = now]_vars

\* C25 happens: /authorize has failed for want of the client credentials.
C25_Witness ==
  /\ response.op = "authorize"
  /\ ~response.success
  /\ ~configured

\* C26: after authorize and a callback for co-1 with a lifetime of 3600 s,
\* status reports connected with expiresIn = 3600; when expiresIn is 200,
\* status reports needsRefresh and not isExpired; getAccessToken(co-1) then
\* sends one refresh and returns the newly issued token, after which status
\* reports expiresIn = 3600 and no needsRefresh.
C26_Lifecycle ==
  [][/\ (response'.op \in CallbackOps /\ response'.outcome = "Connected") =>
          /\ StatusResponse("co-1")'.connected
          /\ StatusResponse("co-1")'.expiresIn = 3600
     /\ (response'.op = "status" /\ response'.connected /\ response'.expiresIn = 200) =>
          /\ response'.needsRefresh
          /\ ~response'.isExpired
     /\ (/\ Has(tokenStore, "co-1")
         /\ StatusResponse("co-1").expiresIn = 200
         /\ RefreshesInFlight("co-1") = {}
         /\ getAccessTokenStart("co-1")) =>
          /\ response' = NoResponse
          /\ Cardinality({c \in Calls : Sends(c, {"getAccessToken"})}) = 1
          /\ Cardinality(RefreshesInFlight("co-1")') = 1
     /\ (response'.op = "getAccessToken" /\ response'.call \in Calls) =>
          /\ response'.outcome = "ok"
          /\ response'.accessToken = response'.call
          /\ response'.accessToken # heap[calls[response'.call].tokenData].accessToken
          /\ heap'[tokenStore'["co-1"]].accessToken = response'.accessToken
          /\ StatusResponse("co-1")'.expiresIn = 3600
          /\ ~StatusResponse("co-1")'.needsRefresh]_vars

\* C26 happens: the refresh that getAccessToken sent with 200 s left has
\* succeeded.
C26_Witness ==
  /\ response.op = "getAccessToken"
  /\ response.outcome = "ok"
  /\ response.call \in Calls
  /\ now = 3400 * 1000
  /\ StatusResponse("co-1").expiresIn = 3600

\* C27: no request is sent twice: a step starts at most one request, a
\* request that has sent its fetch never sends another, and a request that
\* has been answered has ended.
C27_NoRetry ==
  [][/\ Cardinality({c \in Calls : calls'[c] # calls[c]}) <= 1
     /\ \A c \in Calls :
          /\ (calls[c].pc # "idle" /\ calls'[c].pc = "fetch") => calls'[c] = calls[c]
          /\ calls[c].pc \in {"json", "done"} => calls'[c].pc \in {"json", "done"}
          /\ calls[c].pc = "done" => calls'[c].pc = "done"
     /\ (response'.op \in RefreshOps \cup CallbackOps \cup {"revoke"}
           /\ response'.call \in Calls) =>
          /\ calls[response'.call].pc \in {"fetch", "json"}
          /\ calls'[response'.call].pc = "done"]_vars

\* C27 happens: a refresh whose fetch threw has ended with that failure.
C27_Witness ==
  /\ response.op \in RefreshOps
  /\ response.provider = "throw"
  /\ response.call \in Calls
  /\ calls[response.call].pc = "done"

\* The record tokenStore holds for realmId, if any.
Record(realmId) ==
  IF Has(tokenStore, realmId) THEN heap[tokenStore[realmId]] ELSE IdleCall

\* The tenants that the requests handled in this step name.
Touched ==
  {calls[c].realmId : c \in {k \in Calls : calls'[k] # calls[k]}}
  \cup {calls'[c].realmId : c \in {k \in Calls : calls'[k] # calls[k]}}
  \cup (IF response'.op \in RefreshOps \cup CallbackOps \cup {"revoke", "status"}
          THEN {response'.realmId} ELSE {})

\* C28: a step of an operation on one tenant leaves the record of every
\* other tenant as it is; a stale record of B that is not marked as
\* refreshing is refreshed by get_valid_access_token(B) and by refresh(B)
\* whatever is in flight for other tenants; and get_valid_access_token(B)
\* answers with the access token of B's record and of no other record.
C28_TenantsIndependent ==
  [][/\ Cardinality(Touched \cap Tenants) <= 1
     /\ \A B \in Tenants : Record(B)' # Record(B) => B \in Touched
     /\ \A B \in Tenants :
          (/\ Has(tokenStore, B)
           /\ now >= heap[tokenStore[B]].expiresAt - FiveMinutes
           /\ ~heap[tokenStore[B]].isRefreshing
           /\ getAccessTokenStart(B) \/ tokenStart(B) \/ refreshStart(B)) =>
            \E c \in Calls : Sends(c, RefreshOps) /\ calls'[c].realmId = B
     /\ \A B \in Tenants :
          (response'.op \in GetOps /\ response'.outcome = "ok" /\ response'.realmId = B) =>
            /\ response'.accessToken = Record(B)'.accessToken
            /\ \A A \in Tenants \ {B} :
                 Has(tokenStore', A) => Record(A)'.accessToken # response'.accessToken]_vars

\* C28 happens: getAccessToken has refreshed co-2's token while a refresh
\* for co-1 is in flight.
C28_Witness ==
  /\ response.op \in GetOps
  /\ response.outcome = "ok"
  /\ response.call \in Calls
  /\ response.realmId = "co-2"
  /\ RefreshesInFlight("co-1") # {}

\* C30: the stored record of T is marked isRefreshing only while a refresh
\* that getAccessToken or GET /token sent for T is in flight; when such a
\* refresh ends, by success, rejection or a thrown error, the record it
\* marked or stored, if it is the stored one, is not marked.
C30_MarkOnlyWhileInFlight ==
  [][/\ \A T \in Tenants :
          (Has(tokenStore', T) /\ heap'[tokenStore'[T]].isRefreshing) =>
            \E c \in Calls : /\ calls'[c].op \in GetOps
                             /\ calls'[c].realmId = T
                             /\ calls'[c].pc = "fetch"
     /\ (response'.op \in GetOps /\ response'.call \in Calls) =>
          LET c == response'.call
              T == response'.realmId
          IN /\ ~heap'[calls[c].tokenData].isRefreshing \/ response'.outcome = "ok"
             /\ (Has(tokenStore', T) /\ tokenStore'[T] \in {c, calls[c].tokenData}) =>
                  ~heap'[tokenStore'[T]].isRefreshing]_vars

\* C30 happens: a refresh that getAccessToken or GET /token sent has failed
\* and the stored record, still stale, is not marked.
C30_Witness ==
  /\ response.op \in GetOps
  /\ response.call \in Calls
  /\ response.provider \in {"notok", "throw"}
  /\ Has(tokenStore, response.realmId)
  /\ ~heap[tokenStore[response.realmId]].isRefreshing
  /\ now >= heap[tokenStore[response.realmId]].expiresAt - FiveMinutes

\* C29: when the provider answers every request, every request that waits
\* for the provider ends, and a get_valid_access_token that arrives while a
\* refresh for its tenant is pending answers in the step that handles it.
C29_EveryRequestEnds ==
  /\ \A c \in Calls : (calls[c].pc \in {"fetch", "json"}) ~> (calls[c].pc = "done")
  /\ [][\A T \in Tenants :
          (/\ Has(tokenStore, T)
           /\ heap[tokenStore[T]].isRefreshing
           /\ getAccessTokenStart(T) \/ tokenStart(T)) =>
            /\ response'.op \in GetOps
            /\ response'.call = NoCall]_vars

\* C29 happens: a request whose refresh was rejected, and that waited for
\* the body of the rejection, has ended.
C29_Witness ==
  /\ response.op = "getAccessToken"
  /\ response.outcome = "RefreshRejected"
  /\ calls[response.call].pc = "done"

\* C31: a refresh whose provider call throws is answered NetworkError and
\* leaves tokenStore as it is when the failure is handled: the tenant's
\* record is neither deleted nor replaced by the record the request read
\* before the call.
C31_NetworkErrorKeepsStore ==
  [][(response'.op \in RefreshOps /\ response'.provider = "throw") =>
       /\ response'.outcome = "NetworkError"
       /\ tokenStore' = tokenStore]_vars

\* C32: with a provider that rotates refresh tokens, a tenant that was
\* connected with a valid refresh token and is never revoked keeps its record,
\* and the stored refresh token is never one the provider has replaced,
\* whatever the interleaving of getAccessToken, GET /token and POST /refresh.
C32_NoSpuriousDisconnect ==
  \A T \in DOMAIN EarlierRecords \ revoked :
    /\ Has(tokenStore, T)
    /\ heap[tokenStore[T]].refreshToken \notin spent

\* C33: right after a successful /authorize the state store holds no record
\* created more than ten minutes earlier, and every record that was present
\* before the call and is not older than ten minutes, as well as the record
\* of the state just issued, is still there.
C33_PurgeOnlyExpired ==
  [][(response'.op = "authorize" /\ response'.success) =>
       /\ \A s \in DOMAIN oauthStateStore' :
            now - oauthStateStore'[s].createdAt <= TenMinutes
       /\ \A s \in DOMAIN oauthStateStore :
            (now - oauthStateStore[s].createdAt <= TenMinutes) =>
              /\ Has(oauthStateStore', s)
              /\ oauthStateStore'[s] = oauthStateStore[s]
       /\ Has(oauthStateStore', response'.state)
       /\ ~Has(oauthStateStore, response'.state)]_vars

\* C33 happens: /authorize has just issued a state and the earlier state,
\* which no callback presented, has been purged.
C33_Witness ==
  /\ response.op = "authorize"
  /\ response.success
  /\ \E s \in EarlierStates : passed[s] = 0 /\ ~Has(oauthStateStore, s)

\* C34: the environment of a tenant's record never changes: a refresh
\* writes a record with the environment of the record it read, and whenever a
\* tenant's record is replaced the new one carries the environment of the old.
C34_EnvironmentKept ==
  [][/\ (response'.op \in RefreshOps /\ response'.provider = "ok") =>
          heap'[response'.call].environment =
            heap[calls[response'.call].tokenData].environment
     /\ \A T \in Tenants :
          (Has(tokenStore, T) /\ Has(tokenStore', T)) =>
            heap'[tokenStore'[T]].environment = heap[tokenStore[T]].environment]_vars

\* C34 happens: in the production deployment a refresh has replaced the
\* record of the code exchange.
C34_Witness ==
  /\ response.op \in RefreshOps
  /\ response.provider = "ok"
  /\ QUICKBOOKS_ENVIRONMENT = "production"
  /\ tokenStore[response.realmId] = response.call

\* C35: getAccessToken and GET /token are equivalent: whenever a request of
\* either waits for the provider, the same answer makes both leave tokenStore
\* in the same state: the same new record on success, the same store on a
\* rejection and on a thrown fetch.
C35_GetImplementationsEquivalent ==
  \A c \in Calls :
    (calls[c].pc = "fetch" /\ calls[c].op \in GetOps) =>
      \A answer \in RefreshAnswers :
        answer.kind # "ok" =>
          getAccessTokenFailedStore(calls[c].realmId, calls[c].tokenData) =
            tokenFailedStore(calls[c].realmId, calls[c].tokenData, answer)

\* C36: injectOAuthToken either calls next() once or answers 401, never both
\* and never neither.  A request that carries an accessToken is passed on
\* with that token and without a change to the store; a request with only a
\* realmId is passed on only with the access token of the tenant's record,
\* obtained from getAccessToken; when getAccessToken fails the answer is 401
\* with requiresOAuth and next() is not called.
C36_NextOrUnauthorized ==
  [][/\ response'.op = "injectOAuthToken" =>
          /\ \/ response'.next = 1 /\ response'.status = 0
             \/ response'.next = 0 /\ response'.status = 401
          /\ response'.status = 401 <=> response'.outcome \notin {"ok", "next"}
          /\ response'.status = 401 => response'.requiresOAuth
          /\ response'.outcome = "ok" =>
               /\ Has(tokenStore', response'.realmId)
               /\ response'.accessToken = heap'[tokenStore'[response'.realmId]].accessToken
     /\ \A realmId \in Realms, accessToken \in InjectTokens :
          injectOAuthTokenStart(realmId, accessToken) =>
            /\ accessToken # NoToken =>
                 /\ response'.next = 1
                 /\ response'.accessToken = accessToken
                 /\ UNCHANGED <<tokenStore, heap, calls>>
            /\ (accessToken = NoToken /\ realmId # NoRealm /\ response' # NoResponse) =>
                 response'.outcome \in {"ok", "NotConnected"}]_vars

\* C36 happens: the middleware has answered 401 after the provider rejected
\* the refresh that getAccessToken sent for it.
C36_Witness ==
  /\ response.op = "injectOAuthToken"
  /\ response.outcome = "RefreshRejected"
  /\ response.status = 401

\* C37: saveOAuthConnection with a non-empty realmId makes isOAuthConnected
\* true and leaves the accessToken that was stored before the call as it
\* was, whatever credentials were stored, those with an empty realmId
\* included.
C37_OAuthConnectionKeepsToken ==
  [][(response'.op = "saveOAuthConnection" /\ response'.realmId # "") =>
       /\ isOAuthConnected'
       /\ localStorage.stored =>
            parse(localStorage').accessToken = parse(localStorage).accessToken]_vars

====
